---- MODULE Spec2Model ----
(***************************************************************************)
(* CO-PO mapping matrix generator: the Streamlit orchestration layer of    *)
(* main.py (load_spacy_model, process_syllabus, main) together with the    *)
(* extraction / matrix-generation core it calls (utils.nlp_processor,      *)
(* utils.matrix_generator, data.program_outcomes), which main.py imports.  *)
(*                                                                         *)
(* Text is a sequence of one-character strings ("2.50" is                  *)
(* <<"2", ".", "5", "0">>), so that formatting and parsing are computed.   *)
(* Similarity scores and thresholds are in hundredths (0.80 is 80).        *)
(***************************************************************************)
EXTENDS Integers, Sequences, FiniteSets, TLC

VARIABLES
    scenario,       \* who uses the process: sessions, their files, slider stops
    session_state,  \* st.session_state of each browser session
    pc,             \* where each session's current rerun of main() is
    nlp,            \* main's local nlp of the current rerun (0: not bound)
    trace,          \* the calls and messages of each session's current rerun
    model_cache,    \* st.cache_resource entry of load_spacy_model (0: none)
    cache_lock,     \* session computing the cached value (0: free)
    loads,          \* completed runs of load_spacy_model's body
    on_disk,        \* whether en_core_web_sm is installed
    mapped_at,      \* per session and file: threshold -> cells mapped when stored
    fn_call,        \* one call of process_syllabus on its own
    avg_call        \* one run of the dataframe/average block on its own

vars == <<scenario, session_state, pc, nlp, trace, model_cache, cache_lock,
          loads, on_disk, mapped_at, fn_call, avg_call>>

app_vars == <<scenario, session_state, pc, nlp, trace, model_cache, cache_lock,
              loads, on_disk, mapped_at>>

(***************************************************************************)
(* Bounds                                                                  *)
(***************************************************************************)
\* Data rows of the matrices the average block is run on by itself.
MaxRows == 3
\* Files in the uploader during one rerun.
MaxUploads == 2
\* Concurrent browser sessions in the cold-start scenario.
MaxSessions == 2
\* Cap on the counter of completed model loads.
MaxLoads == 2

(***************************************************************************)
(* Python values                                                           *)
(***************************************************************************)
None == [none |-> TRUE]

EmptyDict == [k \in {} |-> None]

Put(d, k, v) == [x \in DOMAIN d \cup {k} |-> IF x = k THEN v ELSE d[x]]

Range(s) == {s[i] : i \in DOMAIN s}

RECURSIVE SumSeq(_)
SumSeq(s) == IF s = <<>> THEN 0 ELSE Head(s) + SumSeq(Tail(s))

DigitChars == <<"0", "1", "2", "3", "4", "5", "6", "7", "8", "9">>

IsDigit(c) == \E d \in 1..10 : DigitChars[d] = c

DigitValue(c) == (CHOOSE d \in 1..10 : DigitChars[d] = c) - 1

\* str(n) for a natural number n
RECURSIVE IntStr(_)
IntStr(n) == IF n < 10 THEN <<DigitChars[n + 1]>>
             ELSE IntStr(n \div 10) \o <<DigitChars[(n % 10) + 1]>>

\* int(s) for a string of digits
RECURSIVE StrInt(_)
StrInt(s) == IF s = <<>> THEN 0
             ELSE 10 * StrInt(SubSeq(s, 1, Len(s) - 1)) + DigitValue(s[Len(s)])

\* f"CO{i+1}" for i = n - 1, f"PO{i+1}"
CoLabel(n) == <<"C", "O">> \o IntStr(n)
PoLabel(n) == <<"P", "O">> \o IntStr(n)

AverageLabel == <<"A", "v", "e", "r", "a", "g", "e">>

(***************************************************************************)
(* pandas: to_numeric(errors='coerce'), Series.mean, notnull, "{:.2f}"     *)
(***************************************************************************)
NaN == [nan |-> TRUE, num |-> 0, den |-> 1]

Number(n, d) == [nan |-> FALSE, num |-> n, den |-> d]

\* A cell parses when it is a non-empty string of digits; anything else,
\* the empty string included, is coerced to NaN.
\* (to_numeric_zero: the slip of reading an unparseable cell as 0.)
to_numeric_zero(cell) ==
    IF cell # <<>> /\ \A i \in DOMAIN cell : IsDigit(cell[i])
    THEN Number(StrInt(cell), 1) ELSE Number(0, 1)

to_numeric(cell) ==
    IF cell # <<>> /\ \A i \in DOMAIN cell : IsDigit(cell[i])
    THEN Number(StrInt(cell), 1) ELSE NaN

\* Series.mean() skips NaN; the mean of no value at all is NaN.
MeanOf(kept) ==
    IF kept = <<>> THEN NaN
    ELSE Number(SumSeq([i \in DOMAIN kept |-> kept[i].num]), Len(kept))

mean(values) == MeanOf(SelectSeq(values, LAMBDA v : ~v.nan))

notnull(v) == ~v.nan

\* f"{avg:.2f}" of a non-negative avg = num/den: round to the nearest
\* hundredth, a tie going to the even neighbour.
TwoDecimals(h) ==
    IntStr(h \div 100) \o <<".">> \o <<DigitChars[((h % 100) \div 10) + 1]>>
                       \o <<DigitChars[(h % 10) + 1]>>

\* q hundredths and a remainder r of den: to the nearest, a tie to the even.
RoundHalfEven(q, r, den) ==
    IF 2 * r > den \/ (2 * r = den /\ q % 2 = 1) THEN q + 1 ELSE q

Format2f(v) ==
    TwoDecimals(RoundHalfEven((100 * v.num) \div v.den, (100 * v.num) % v.den,
                              v.den))

(***************************************************************************)
(* process_syllabus, lines 29-43: the matrix dataframe and its Average row *)
(***************************************************************************)
\* pd.DataFrame(data=matrix, index=CO1.., columns=PO1..): raises when the
\* shape of matrix is not len(index) x len(columns).
ShapeOk(matrix, n_cos, n_pos) ==
    /\ Len(matrix) = n_cos
    /\ \A i \in DOMAIN matrix : Len(matrix[i]) = n_pos

\* (matrix_dataframe_zero_based: the slip of labelling with i instead of i+1.)
matrix_dataframe_zero_based(matrix, n_cos, n_pos) ==
    [index   |-> [i \in 1..n_cos |-> CoLabel(i - 1)],
     columns |-> [j \in 1..n_pos |-> PoLabel(j - 1)],
     data    |-> matrix]

matrix_dataframe(matrix, n_cos, n_pos) ==
    [index   |-> [i \in 1..n_cos |-> CoLabel(i)],
     columns |-> [j \in 1..n_pos |-> PoLabel(j)],
     data    |-> matrix]

\* (average_cell_nan_shown: the slip of printing the NaN mean.)
average_cell_nan_shown(avg) ==
    IF notnull(avg) THEN Format2f(avg) ELSE <<"n", "a", "n">>

\* Line 41
average_cell(avg) == IF notnull(avg) THEN Format2f(avg) ELSE <<>>

column_average(df, j) ==
    average_cell(mean([i \in DOMAIN df.data |-> to_numeric(df.data[i][j])]))

\* matrix_df.loc['Average'] = averages
with_average(df) ==
    [df EXCEPT !.index = Append(@, AverageLabel),
               !.data  = Append(@, [j \in DOMAIN df.columns |->
                                       column_average(df, j)])]

(***************************************************************************)
(* data.program_outcomes: the fixed catalogue (id, description, K-level).  *)
(* A description is its sequence of words.                                 *)
(***************************************************************************)
PROGRAM_OUTCOMES ==
    << << <<"P", "O", "1">>, <<"Apply", "knowledge", "of", "algorithms">>, "K3">>,
       << <<"P", "O", "2">>, <<"Design", "the", "solutions">>, "K6">>,
       << <<"P", "O", "3">>, <<"Professional", "ethics">>, "K2">> >>

(***************************************************************************)
(* utils.nlp_processor.extract_cos                                         *)
(* A syllabus is a sequence of lines, a line a sequence of tokens.         *)
(***************************************************************************)
Headings == { <<"Course", "Outcomes">>, <<"Course", "Outcomes:">>,
              <<"COURSE", "OUTCOMES">> }

Enumerators == {"1.", "2.", "3.", "5.", "-", "CO1:", "CO2:"}

KMarkers == {"(K1)", "(K2)", "(K3)", "(K4)", "(K5)", "(K6)"}

KLevelOf(tok) ==
    CASE tok = "(K1)" -> "K1" [] tok = "(K2)" -> "K2" [] tok = "(K3)" -> "K3"
      [] tok = "(K4)" -> "K4" [] tok = "(K5)" -> "K5" [] tok = "(K6)" -> "K6"
      [] OTHER -> ""

\* The statement of an item line: enumerator and K-marker stripped.
ItemWords(line) == SelectSeq(Tail(line), LAMBDA tok : tok \notin KMarkers)

FirstLevel(marks) == IF marks = <<>> THEN "" ELSE KLevelOf(Head(marks))

ItemLevel(line) ==
    FirstLevel(SelectSeq(Tail(line), LAMBDA tok : tok \in KMarkers))

IsItem(line) ==
    /\ line # <<>>
    /\ Head(line) \in Enumerators
    /\ ItemWords(line) # <<>>

HeadingLines(content) == {i \in DOMAIN content : content[i] \in Headings}

First(lines) == CHOOSE i \in lines : \A k \in lines : i <= k

\* How many item lines follow one another from the top of `after`.
ItemRun(after) ==
    CHOOSE n \in 0..Len(after) :
       /\ \A i \in 1..n : IsItem(after[i])
       /\ n < Len(after) => ~IsItem(after[n + 1])

Outcomes(after, n) ==
    [k \in 1..n |->
        << <<"C", "O">> \o IntStr(k), ItemWords(after[k]), ItemLevel(after[k]) >>]

SectionOutcomes(content, heads) ==
    IF heads = {} THEN <<>>
    ELSE Outcomes(SubSeq(content, First(heads) + 1, Len(content)),
                  ItemRun(SubSeq(content, First(heads) + 1, Len(content))))

\* The items directly under the first "Course Outcomes" heading, numbered
\* CO1.. by position whatever their own numbering; empty when there is no
\* such section.
extract_cos(content) == SectionOutcomes(content, HeadingLines(content))

\* Syllabus texts: two itemised outcomes; one outcome equal to PO1's text;
\* items whose own numbering is not 1..n; a heading with no item under it;
\* no heading at all; an item of stopwords only under a second heading.
SyllabusTwo ==
    << <<"Data", "Structures">>, <<"Course", "Outcomes">>,
       <<"1.", "Understand", "recursion", "(K2)">>,
       <<"2.", "Apply", "sorting", "algorithms", "(K3)">>,
       <<"Unit", "I">> >>

SyllabusOne ==
    << <<"Course", "Outcomes:">>,
       <<"-", "Apply", "knowledge", "of", "algorithms">> >>

SyllabusRenumbered ==
    << <<"COURSE", "OUTCOMES">>,
       <<"5.", "Design", "solutions", "(K6)">>,
       <<"2.", "Professional", "ethics">>,
       <<"Textbooks">>,
       <<"3.", "Understand", "recursion">> >>

SyllabusHeadingOnly ==
    << <<"Course", "Outcomes">>, <<"Unit", "I">>,
       <<"1.", "Understand", "recursion">> >>

SyllabusNoSection ==
    << <<"Unit", "I">>, <<"1.", "Apply", "sorting">> >>

SyllabusStopwords ==
    << <<"Course", "Outcomes">>, <<"CO1:", "to", "the", "(K1)">>,
       <<"Course", "Outcomes">>, <<"1.", "Understand", "recursion">> >>

Syllabi == {SyllabusTwo, SyllabusOne, SyllabusRenumbered, SyllabusHeadingOnly,
            SyllabusNoSection, SyllabusStopwords}

(***************************************************************************)
(* utils.nlp_processor.process_text and the similarity scorer              *)
(***************************************************************************)
Lower(w) ==
    CASE w = "Understand" -> "understand" [] w = "Apply" -> "apply"
      [] w = "Design" -> "design" [] w = "Professional" -> "professional"
      [] w = "The" -> "the"
      [] OTHER -> w

Stopwords == {"the", "of", "and", "to", "a"}

Lemma(w) ==
    CASE w = "algorithms" -> "algorithm" [] w = "solutions" -> "solution"
      [] w = "sorting" -> "sort"
      [] OTHER -> w

Lemmas(kept) == [i \in DOMAIN kept |-> Lemma(kept[i])]

preprocess(text) ==
    Lemmas(SelectSeq([i \in DOMAIN text |-> Lower(text[i])],
                     LAMBDA w : w \notin Stopwords))

\* The pretrained model's vector of a term (theory, practice, profession).
Embedding(term) ==
    CASE term = "understand" -> <<2, 0, 0>> [] term = "apply" -> <<0, 2, 0>>
      [] term = "recursion" -> <<2, 1, 0>> [] term = "sort" -> <<1, 2, 0>>
      [] term = "algorithm" -> <<1, 1, 0>> [] term = "knowledge" -> <<1, 0, 0>>
      [] term = "design" -> <<0, 3, 0>> [] term = "solution" -> <<1, 2, 0>>
      [] term = "professional" -> <<0, 0, 1>> [] term = "ethics" -> <<0, 0, 2>>
      [] OTHER -> <<0, 0, 0>>

Vectorize(terms) ==
    [d \in 1..3 |-> SumSeq([i \in DOMAIN terms |-> Embedding(terms[i])[d]])]

Dot(u, v) == SumSeq([d \in 1..3 |-> u[d] * v[d]])

\* The cosine in hundredths, rounded down, from the squared norms uu, vv
\* and the dot product uv; 0 when either vector is null.
CosineOf(uu, vv, uv) ==
    IF uu * vv = 0 THEN 0
    ELSE CHOOSE k \in 0..100 :
            /\ k * k * uu * vv <= 10000 * uv * uv
            /\ (k + 1) * (k + 1) * uu * vv > 10000 * uv * uv

CosineOfVectors(u, v) == CosineOf(Dot(u, u), Dot(v, v), Dot(u, v))

\* Cosine similarity of the two aggregate vectors; 0 when either side has
\* no vectorizable term.
Cosine(a, b) == CosineOfVectors(Vectorize(preprocess(a)), Vectorize(preprocess(b)))

\* The scorer is deterministic: the scores of the statements of the syllabi
\* at hand against the catalogue, computed once.
Statements ==
    UNION {{extract_cos(c)[i][2] : i \in DOMAIN extract_cos(c)} : c \in Syllabi}

ScoreTable ==
    [a \in Statements |->
        [b \in {PROGRAM_OUTCOMES[j][2] : j \in DOMAIN PROGRAM_OUTCOMES} |->
            Cosine(a, b)]]

similarity(a, b) ==
    IF a \in DOMAIN ScoreTable /\ b \in DOMAIN ScoreTable[a]
    THEN ScoreTable[a][b] ELSE Cosine(a, b)

(***************************************************************************)
(* utils.matrix_generator.generate_matrix                                  *)
(***************************************************************************)
NumBands == 3

\* Equal-width bands over [threshold, 1.0]; a perfect score is in the top one.
MappingLevel(score, threshold) ==
    IF score >= 100 THEN NumBands
    ELSE 1 + (NumBands * (score - threshold)) \div (100 - threshold)

MappingCell(score, threshold) ==
    IF score < threshold THEN <<>> ELSE IntStr(MappingLevel(score, threshold))

\* The condition generate_matrix rejects its arguments with, "" when none.
Rejection(pos, nlp_h, threshold) ==
    IF threshold < 0 \/ threshold > 100 \/ pos = <<>> THEN "invalid-argument"
    ELSE IF nlp_h = 0 THEN "model-unavailable" ELSE ""

Scores(cos, pos) ==
    [i \in DOMAIN cos |-> [j \in DOMAIN pos |-> similarity(cos[i][2], pos[j][2])]]

Index(seq, id) == CHOOSE i \in DOMAIN seq : seq[i][1] = id

Ids(seq) == {seq[i][1] : i \in DOMAIN seq}

DebugReport(cos, pos, scores, threshold) ==
    [threshold |-> threshold,
     similarity_scores |->
        [c \in Ids(cos) |-> [p \in Ids(pos) |-> scores[Index(cos, c)][Index(pos, p)]]],
     preprocessed_terms |->
        [c \in Ids(cos) |-> preprocess(cos[Index(cos, c)][2])]]

Generated(cos, pos, scores, threshold) ==
    [raised |-> "",
     sim_calls |-> Len(cos) * Len(pos),
     matrix |-> [i \in DOMAIN cos |-> [j \in DOMAIN pos |->
                    MappingCell(scores[i][j], threshold)]],
     debug_info |-> DebugReport(cos, pos, scores, threshold)]

Rejected(condition) ==
    [raised |-> condition, sim_calls |-> 0, matrix |-> <<>>, debug_info |-> None]

generate_matrix(cos, pos, nlp_h, threshold) ==
    IF Rejection(pos, nlp_h, threshold) # ""
    THEN Rejected(Rejection(pos, nlp_h, threshold))
    ELSE Generated(cos, pos, Scores(cos, pos), threshold)

(***************************************************************************)
(* process_syllabus                                                        *)
(***************************************************************************)
co_dataframe(cos) ==
    [k \in {"CO", "Description", "K-Level"} |->
        CASE k = "CO" -> [i \in DOMAIN cos |-> cos[i][1]]
          [] k = "Description" -> [i \in DOMAIN cos |-> cos[i][2]]
          [] OTHER -> [i \in DOMAIN cos |-> cos[i][3]]]

\* What a call hands back: the returned value, the exception that leaves
\* the call ("" when none does) and the calls and messages it made.
Outcome(ret, events) == [ret |-> ret, raises |-> "", events |-> events]

\* Lines 29-58 and 59-61, once generate_matrix has returned gm or raised.
Analysis(cos, gm, threshold, events) ==
    IF gm.raised # "" \/ ~ShapeOk(gm.matrix, Len(cos), Len(PROGRAM_OUTCOMES))
    THEN Outcome(None, events \o <<"st.error">>)
    ELSE Outcome([cos |-> co_dataframe(cos),
                  matrix |-> with_average(matrix_dataframe(
                     gm.matrix, Len(cos), Len(PROGRAM_OUTCOMES))),
                  debug_info |-> gm.debug_info,
                  threshold |-> threshold], events)

GenerateEvents(gm) ==
    <<"extract_cos", "generate_matrix">>
    \o (IF gm.sim_calls > 0 THEN <<"similarity">> ELSE <<>>)

Analyse(cos, gm, threshold) == Analysis(cos, gm, threshold, GenerateEvents(gm))

\* (analyse_unguarded: the slip of leaving out `if not cos`.)
analyse_unguarded(cos, nlp_h, threshold) ==
    Analyse(cos, generate_matrix(cos, PROGRAM_OUTCOMES, nlp_h, threshold),
            threshold)

\* (analyse_clamped: the slip of coercing the threshold into [0,1].)
analyse_clamped(cos, nlp_h, threshold) ==
    IF cos = <<>> THEN Outcome(None, <<"extract_cos">>)
    ELSE Analyse(cos,
                 generate_matrix(cos, PROGRAM_OUTCOMES, nlp_h,
                    IF threshold < 0 THEN 0
                    ELSE IF threshold > 100 THEN 100 ELSE threshold),
                 threshold)

\* Lines 24-58, once extract_cos has returned cos.
analyse(cos, nlp_h, threshold) ==
    IF cos = <<>> THEN Outcome(None, <<"extract_cos">>)
    ELSE Analyse(cos, generate_matrix(cos, PROGRAM_OUTCOMES, nlp_h, threshold),
                 threshold)

process_syllabus(content, nlp_h, threshold) ==
    analyse(extract_cos(content), nlp_h, threshold)

(***************************************************************************)
(* The inputs                                                              *)
(***************************************************************************)
\* st.slider(min_value=0.0, max_value=1.0, step=0.01): some of its stops.
\* (SliderStopsPastMax: the slip of a slider whose max_value is 1.5.)
SliderStopsPastMax == {40, 80, 150}

SliderStops == {40, 80, 100}

\* Thresholds a caller of process_syllabus may pass, two of them invalid.
AnyThresholds == {0 - 10, 0, 40, 80, 95, 100, 150}

\* Cells a matrix may hold: empty, level tokens, an unparseable token.
Cells == { <<>>, <<"1">>, <<"2">>, <<"3">>, <<"x">> }

\* A matrix of n rows: one column of any cells among columns of one cell.
MatrixWithColumn(n, j, column, filler) ==
    [i \in 1..n |-> [k \in DOMAIN PROGRAM_OUTCOMES |->
        IF k = j THEN column[i] ELSE filler]]

\* process_syllabus is a function of its arguments, and of the model only
\* whether there is one: its results on the inputs at hand, computed once.
ProcessTable ==
    [c \in Syllabi |-> [loaded \in BOOLEAN |->
        [t \in AnyThresholds \cup SliderStops |->
            process_syllabus(c, IF loaded THEN 1 ELSE 0, t)]]]

call_process_syllabus(content, nlp_h, threshold) ==
    IF content \in Syllabi /\ threshold \in AnyThresholds \cup SliderStops
    THEN ProcessTable[content][nlp_h # 0][threshold]
    ELSE process_syllabus(content, nlp_h, threshold)

NoCall == [done |-> FALSE, args |-> None, out |-> None]

(***************************************************************************)
(* process_syllabus called on its own                                      *)
(***************************************************************************)
InitFn ==
    /\ scenario = None
    /\ session_state = None /\ pc = None /\ nlp = None /\ trace = None
    /\ model_cache = 0 /\ cache_lock = 0 /\ loads = 0 /\ on_disk = TRUE
    /\ mapped_at = None
    /\ avg_call = NoCall
    /\ \E c \in Syllabi, m \in {0, 1}, t \in AnyThresholds :
          fn_call = [done |-> FALSE,
                     args |-> [content |-> c, nlp |-> m, threshold |-> t],
                     out  |-> None]

CallProcessSyllabus ==
    /\ ~fn_call.done
    /\ fn_call.args # None
    /\ fn_call' = [fn_call EXCEPT
                     !.done = TRUE,
                     !.out  = call_process_syllabus(fn_call.args.content,
                                                    fn_call.args.nlp,
                                                    fn_call.args.threshold)]
    /\ UNCHANGED <<app_vars, avg_call>>

NextFn == CallProcessSyllabus

SpecFn == InitFn /\ [][NextFn]_vars

(***************************************************************************)
(* Lines 29-43 run on any matrix generate_matrix may hand over             *)
(***************************************************************************)
InitAvg ==
    /\ scenario = None
    /\ session_state = None /\ pc = None /\ nlp = None /\ trace = None
    /\ model_cache = 0 /\ cache_lock = 0 /\ loads = 0 /\ on_disk = TRUE
    /\ mapped_at = None
    /\ fn_call = NoCall
    /\ \E n \in 1..MaxRows, j \in DOMAIN PROGRAM_OUTCOMES, filler \in Cells :
          \E column \in [1..n -> Cells] :
             avg_call = [done |-> FALSE,
                         args |-> [matrix |-> MatrixWithColumn(n, j, column, filler)],
                         out  |-> None]

BuildMatrixFrame ==
    /\ ~avg_call.done
    /\ avg_call.args # None
    /\ avg_call' = [avg_call EXCEPT
                      !.done = TRUE,
                      !.out  = with_average(matrix_dataframe(
                                  avg_call.args.matrix,
                                  Len(avg_call.args.matrix),
                                  Len(PROGRAM_OUTCOMES)))]
    /\ UNCHANGED <<app_vars, fn_call>>

NextAvg == BuildMatrixFrame

SpecAvg == InitAvg /\ [][NextAvg]_vars

(***************************************************************************)
(* The Streamlit application: main(), rerun on every interaction           *)
(***************************************************************************)
NotUtf8 == [utf8 |-> FALSE, text |-> <<>>]

Text(t) == [utf8 |-> TRUE, text |-> t]

UploadedFile(name, payload) == [name |-> name, payload |-> payload]

DefaultThreshold == 80

SessionKeys == {"processed_files", "file_contents", "file_thresholds",
                "matrix_states"}

\* A call or a message of the rerun: what was called, from which line of
\* main, for which file and content, with which threshold and model, and
\* what the call did in turn.
Event(op, line, file, content, threshold, nlp_h, inner) ==
    [op |-> op, line |-> line, file |-> file, content |-> content,
     threshold |-> threshold, nlp |-> nlp_h, inner |-> inner]

\* Lines 73-80: each missing key of st.session_state is set to {}.
init_session_state(ss) ==
    [k \in DOMAIN ss \cup SessionKeys |->
        IF k \in DOMAIN ss THEN ss[k] ELSE EmptyDict]

\* `if results:` / `if new_results:`
truthy(results) == results # None

\* The (row, column) places of the non-empty data cells of a stored matrix.
MappedCells(result) ==
    {<<i, j>> \in (1..(Len(result.matrix.data) - 1)) \X DOMAIN result.matrix.columns :
        result.matrix.data[i][j] # <<>>}

Record(hist, name, threshold, result) ==
    Put(hist, name,
        Put(IF name \in DOMAIN hist THEN hist[name] ELSE EmptyDict,
            threshold, MappedCells(result)))

\* (ingest_one_threshold_on_success: the slip of storing the default
\* threshold only with a result.)
ingest_one_threshold_on_success(run, f, nlp_h, r) ==
    [ss |-> [run.ss EXCEPT
               !["file_contents"] = Put(@, f.name, f.payload.text),
               !["file_thresholds"] =
                  IF r.raises = "" /\ truthy(r.ret)
                  THEN Put(@, f.name, DefaultThreshold) ELSE @,
               !["processed_files"] =
                  IF r.raises = "" /\ truthy(r.ret)
                  THEN Put(@, f.name, r.ret) ELSE @],
     hist |-> IF r.raises = "" /\ truthy(r.ret)
              THEN Record(run.hist, f.name, DefaultThreshold, r.ret)
              ELSE run.hist,
     calls |-> Append(run.calls,
                      Event("process_syllabus", 99, f.name, f.payload.text,
                            DefaultThreshold, nlp_h, r.events)),
     raised |-> r.raises # ""]

\* Lines 97-101 for one new file, r being what process_syllabus did.
\* A run is [ss, hist, calls, raised]: the session state, the record of
\* what was mapped, the calls made, and whether an exception is on its way
\* to line 193.
ingest_one(run, f, nlp_h, r) ==
    [ss |-> [run.ss EXCEPT
               !["file_contents"] = Put(@, f.name, f.payload.text),
               !["file_thresholds"] = Put(@, f.name, DefaultThreshold),
               !["processed_files"] =
                  IF r.raises = "" /\ truthy(r.ret)
                  THEN Put(@, f.name, r.ret) ELSE @],
     hist |-> IF r.raises = "" /\ truthy(r.ret)
              THEN Record(run.hist, f.name, DefaultThreshold, r.ret)
              ELSE run.hist,
     calls |-> Append(run.calls,
                      Event("process_syllabus", 99, f.name, f.payload.text,
                            DefaultThreshold, nlp_h, r.events)),
     raised |-> r.raises # ""]

\* Line 95: a name is new when file_contents has no such key.
\* (cached_if_processed: the slip of looking the name up in processed_files.)
cached_if_processed(ss, name) == name \in DOMAIN ss["processed_files"]

cached(ss, name) == name \in DOMAIN ss["file_contents"]

\* Lines 94-101: the files of the uploader whose name is not cached yet.
RECURSIVE ingest(_, _, _)
ingest(run, files, nlp_h) ==
    IF files = <<>> \/ run.raised THEN run
    ELSE IF cached(run.ss, Head(files).name)
    THEN ingest(run, Tail(files), nlp_h)
    ELSE IF ~Head(files).payload.utf8
    THEN [run EXCEPT !.raised = TRUE]
    ELSE ingest(ingest_one(run, Head(files), nlp_h,
                           call_process_syllabus(Head(files).payload.text,
                                                 nlp_h, DefaultThreshold)),
                Tail(files), nlp_h)

\* Line 144: the threshold handed to process_syllabus when the slider moved.
\* (recompute_threshold_stale: the slip of passing the stored threshold.)
recompute_threshold_stale(current_threshold, new_threshold) == current_threshold

recompute_threshold(current_threshold, new_threshold) == new_threshold

\* Line 147: the entry stored after a recomputation.
\* (replace_entry_matrix_only: the slip of updating the matrix in place.)
replace_entry_matrix_only(old_results, new_results) ==
    [old_results EXCEPT !.matrix = new_results.matrix]

replace_entry(old_results, new_results) == new_results

\* Line 126
\* (current_threshold_default: the slip of comparing with 0.80 always.)
current_threshold_default(ss, filename) == DefaultThreshold

current_threshold(ss, filename) ==
    IF filename \in DOMAIN ss["file_thresholds"]
    THEN ss["file_thresholds"][filename] ELSE DefaultThreshold

\* Lines 138-149: the slider of a tab moved, r being what process_syllabus
\* did with the file's cached content.
\* (recompute_marks_entry: the slip of writing the new threshold into the
\* stored entry before the computation.)
recompute_marks_entry(run, filename, new_threshold, nlp_h, r) ==
    [ss |-> [run.ss EXCEPT
               !["file_thresholds"] = Put(@, filename, new_threshold),
               !["processed_files"] =
                  Put(@, filename,
                      IF r.raises = "" /\ truthy(r.ret)
                      THEN replace_entry(@[filename], r.ret)
                      ELSE [@[filename] EXCEPT !.threshold = new_threshold])],
     hist |-> IF r.raises = "" /\ truthy(r.ret)
              THEN Record(run.hist, filename, new_threshold,
                          replace_entry(run.ss["processed_files"][filename],
                                        r.ret))
              ELSE run.hist,
     calls |-> run.calls
               \o <<Event("process_syllabus", 141, filename,
                          run.ss["file_contents"][filename],
                          new_threshold, nlp_h, r.events)>>,
     raised |-> FALSE]

\* (recompute_shared_slider: the slip of one slider key for all the tabs.)
recompute_shared_slider(run, filename, new_threshold, nlp_h, r) ==
    [ss |-> [run.ss EXCEPT
               !["file_thresholds"] = [f \in DOMAIN @ |-> new_threshold],
               !["processed_files"] =
                  IF r.raises = "" /\ truthy(r.ret)
                  THEN Put(@, filename, replace_entry(@[filename], r.ret))
                  ELSE @],
     hist |-> IF r.raises = "" /\ truthy(r.ret)
              THEN Record(run.hist, filename, new_threshold,
                          replace_entry(run.ss["processed_files"][filename],
                                        r.ret))
              ELSE run.hist,
     calls |-> run.calls
               \o <<Event("process_syllabus", 141, filename,
                          run.ss["file_contents"][filename],
                          new_threshold, nlp_h, r.events)>>,
     raised |-> FALSE]

\* (recompute_threshold_unsaved: the slip of leaving out line 138.)
recompute_threshold_unsaved(run, filename, new_threshold, nlp_h, r) ==
    [ss |-> [run.ss EXCEPT
               !["processed_files"] =
                  IF r.raises = "" /\ truthy(r.ret)
                  THEN Put(@, filename, replace_entry(@[filename], r.ret))
                  ELSE @],
     hist |-> IF r.raises = "" /\ truthy(r.ret)
              THEN Record(run.hist, filename, new_threshold,
                          replace_entry(run.ss["processed_files"][filename],
                                        r.ret))
              ELSE run.hist,
     calls |-> run.calls
               \o <<Event("process_syllabus", 141, filename,
                          run.ss["file_contents"][filename],
                          new_threshold, nlp_h, r.events)>>,
     raised |-> FALSE]

recompute(run, filename, new_threshold, nlp_h, r) ==
    [ss |-> [run.ss EXCEPT
               !["file_thresholds"] = Put(@, filename, new_threshold),
               !["processed_files"] =
                  IF r.raises = "" /\ truthy(r.ret)
                  THEN Put(@, filename, replace_entry(@[filename], r.ret))
                  ELSE @],
     hist |-> IF r.raises = "" /\ truthy(r.ret)
              THEN Record(run.hist, filename, new_threshold,
                          replace_entry(run.ss["processed_files"][filename],
                                        r.ret))
              ELSE run.hist,
     calls |-> run.calls
               \o <<Event("process_syllabus", 141, filename,
                          run.ss["file_contents"][filename],
                          recompute_threshold(
                             current_threshold(run.ss, filename), new_threshold),
                          nlp_h, r.events)>>
               \o (IF r.raises # ""
                   THEN <<Event("st.error", 149, filename, <<>>, new_threshold,
                                nlp_h, <<>>)>>
                   ELSE <<>>),
     raised |-> FALSE]

\* Lines 151-184: the stored entry of the file is displayed.
display(run, filename, nlp_h) ==
    [run EXCEPT !.calls =
        Append(@, Event("st.dataframe", 155, filename,
                        run.ss["processed_files"][filename].matrix,
                        run.ss["processed_files"][filename].debug_info.threshold,
                        nlp_h, <<>>))]

\* Lines 127-135: the slider of the tab returns the value the user left.
slide(run, filename, new_threshold, nlp_h) ==
    [run EXCEPT !.calls =
        Append(@, Event("st.slider", 127, filename, <<>>, new_threshold,
                        nlp_h, <<>>))]

\* Lines 117-184: the tab of one processed file.
tab(run, filename, new_threshold, nlp_h) ==
    IF new_threshold # current_threshold(run.ss, filename)
    THEN display(
           recompute(slide(run, filename, new_threshold, nlp_h),
                     filename, new_threshold, nlp_h,
              call_process_syllabus(
                 run.ss["file_contents"][filename], nlp_h,
                 recompute_threshold(current_threshold(run.ss, filename),
                                     new_threshold))),
           filename, nlp_h)
    ELSE display(slide(run, filename, new_threshold, nlp_h), filename, nlp_h)

RECURSIVE tabs(_, _, _, _)
tabs(run, filenames, slider, nlp_h) ==
    IF filenames = {} THEN run
    ELSE LET filename == CHOOSE f \in filenames : TRUE
         IN tabs(tab(run, filename, slider[filename], nlp_h),
                 filenames \ {filename}, slider, nlp_h)

\* Lines 186-191
\* (clear_all_results_only: the slip of emptying processed_files alone.)
clear_all_results_only(run) ==
    [run EXCEPT !.ss["processed_files"] = EmptyDict, !.hist = EmptyDict]

clear_all(run) ==
    [run EXCEPT !.ss = [k \in SessionKeys |-> EmptyDict], !.hist = EmptyDict]

\* Lines 114-184: one tab per processed file, unless something was raised.
render(ingested, slider, nlp_h) ==
    IF ingested.raised THEN ingested
    ELSE tabs(ingested, DOMAIN ingested.ss["processed_files"], slider, nlp_h)

\* Line 187: st.button returns whether it was clicked.
button(run, clear, nlp_h) ==
    [run EXCEPT !.calls =
        Append(@, Event("st.button", 187, "", <<>>, 0, nlp_h,
                        IF clear THEN <<"clicked">> ELSE <<>>))]

\* Lines 186-191: the Clear All click.
clear_if(run, clear, nlp_h) ==
    IF run.raised THEN run
    ELSE IF clear THEN clear_all(button(run, clear, nlp_h))
    ELSE button(run, clear, nlp_h)

\* Lines 193-194: the handler of whatever was raised since line 83.
report(run, nlp_h) ==
    IF run.raised
    THEN [run EXCEPT !.calls =
             Append(@, Event("st.error", 194, "", <<>>, 0, nlp_h, <<>>))]
    ELSE run

\* Lines 103-194, after the new files are ingested.
after_ingest(run, ingested, uploaded_files, slider, clear, nlp_h) ==
    IF uploaded_files = <<>> THEN run
    ELSE report(clear_if(render(ingested, slider, nlp_h), clear, nlp_h), nlp_h)

\* The uploader's content during one rerun: up to MaxUploads of the user's
\* files, in any order, the same name possibly twice.
UploadSeqs == UNION {[1..n -> scenario.library] : n \in 0..MaxUploads}

\* @st.cache_resource, on a miss: the value is looked up again once the
\* compute lock is held. (NoRecheck: a cache that computes without looking.)
NoRecheck(cache) == FALSE

CachedUnderLock(cache) == cache # 0

\* Lines 193-194: an exception of load_spacy_model ends the rerun.
\* (continue_after_load_raises: the slip of going on without a model.)
continue_after_load_raises == "body"

after_load_raises == "idle"

Log(s, events) == trace' = [trace EXCEPT ![s] = @ \o events]

\* Lines 64-80
StartRerun(s) ==
    /\ pc[s] = "idle"
    /\ pc' = [pc EXCEPT ![s] = "call_load"]
    /\ session_state' = [session_state EXCEPT ![s] = init_session_state(@)]
    /\ trace' = [trace EXCEPT ![s] = <<>>]
    /\ nlp' = [nlp EXCEPT ![s] = 0]
    /\ UNCHANGED <<scenario, model_cache, cache_lock, loads, on_disk, mapped_at,
                   fn_call, avg_call>>

\* Line 83, the cached function's first lookup, without the lock.
CacheRead(s) ==
    /\ pc[s] = "call_load"
    /\ IF model_cache # 0
       THEN /\ nlp' = [nlp EXCEPT ![s] = model_cache]
            /\ Log(s, <<Event("load_spacy_model", 83, "", <<>>, 0, model_cache,
                              <<"hit">>)>>)
            /\ pc' = [pc EXCEPT ![s] = "body"]
       ELSE /\ pc' = [pc EXCEPT ![s] = "wait_lock"]
            /\ UNCHANGED <<nlp, trace>>
    /\ UNCHANGED <<scenario, session_state, model_cache, cache_lock, loads,
                   on_disk, mapped_at, fn_call, avg_call>>

\* The compute lock is taken and the cache looked up again.
LockAndRecheck(s) ==
    /\ pc[s] = "wait_lock"
    /\ cache_lock = 0
    /\ IF CachedUnderLock(model_cache)
       THEN /\ nlp' = [nlp EXCEPT ![s] = model_cache]
            /\ Log(s, <<Event("load_spacy_model", 83, "", <<>>, 0, model_cache,
                              <<"waited", "hit">>)>>)
            /\ pc' = [pc EXCEPT ![s] = "body"]
            /\ UNCHANGED cache_lock
       ELSE /\ cache_lock' = s
            /\ pc' = [pc EXCEPT ![s] = "loading"]
            /\ UNCHANGED <<nlp, trace>>
    /\ UNCHANGED <<scenario, session_state, model_cache, loads, on_disk,
                   mapped_at, fn_call, avg_call>>

\* Lines 12-18 returning a model: spacy.load succeeds, at once or after the
\* download; the value is cached and the lock released.
LoadSucceeds(s) ==
    /\ pc[s] = "loading"
    /\ loads < MaxLoads
    /\ loads' = loads + 1
    /\ model_cache' = loads + 1
    /\ on_disk' = TRUE
    /\ cache_lock' = 0
    /\ nlp' = [nlp EXCEPT ![s] = loads + 1]
    /\ Log(s, <<Event("load_spacy_model", 83, "", <<>>, 0, loads + 1,
                      IF on_disk THEN <<"computed">>
                      ELSE <<"st.info", "download", "computed">>)>>)
    /\ pc' = [pc EXCEPT ![s] = "body"]
    /\ UNCHANGED <<scenario, session_state, mapped_at, fn_call, avg_call>>

\* Lines 12-18 raising: the model is not installed and the download fails,
\* or spacy.load fails again after it; nothing is cached, the lock is
\* released, and line 194 reports the error.
LoadRaises(s) ==
    /\ pc[s] = "loading"
    /\ ~on_disk
    /\ on_disk' \in BOOLEAN
    /\ cache_lock' = 0
    /\ Log(s, <<Event("load_spacy_model", 83, "", <<>>, 0, 0,
                      <<"st.info", "download", "raised">>),
                Event("st.error", 194, "", <<>>, 0, 0, <<>>)>>)
    /\ pc' = [pc EXCEPT ![s] = after_load_raises]
    /\ UNCHANGED <<scenario, session_state, nlp, model_cache, loads, mapped_at,
                   fn_call, avg_call>>

\* What a rerun of session s starts line 86 with.
Run(s) == [ss |-> session_state[s], hist |-> mapped_at[s],
           calls |-> trace[s], raised |-> FALSE]

\* Lines 86-90: st.file_uploader returns the files the user left in it.
uploader(run, uploaded_files, nlp_h) ==
    [run EXCEPT !.calls =
        Append(@, Event("st.file_uploader", 86, "", uploaded_files, 0, nlp_h,
                        <<>>))]

\* The files whose tab, and slider, is rendered.
Rendered(uploaded_files, ingested) ==
    IF uploaded_files = <<>> \/ ingested.raised THEN {}
    ELSE DOMAIN ingested.ss["processed_files"]

EndRerun(s, end) ==
    /\ session_state' = [session_state EXCEPT ![s] = end.ss]
    /\ mapped_at' = [mapped_at EXCEPT ![s] = end.hist]
    /\ trace' = [trace EXCEPT ![s] = end.calls]

\* Lines 103-194 with each rendered slider's value and the Clear All click.
Interact(s, run, ingested, uploaded_files) ==
    \E slider \in [Rendered(uploaded_files, ingested) -> scenario.stops],
       clear \in BOOLEAN :
          EndRerun(s, after_ingest(run, ingested, uploaded_files, slider,
                                   clear, nlp[s]))

Upload(s, run, uploaded_files) ==
    Interact(s, run, ingest(run, uploaded_files, nlp[s]), uploaded_files)

\* Lines 86-194 with what the user left in the widgets: the uploader's
\* files, each rendered slider's value, the Clear All click.
Body(s) ==
    /\ pc[s] = "body"
    /\ \E uploaded_files \in UploadSeqs :
          Upload(s, uploader(Run(s), uploaded_files, nlp[s]), uploaded_files)
    /\ pc' = [pc EXCEPT ![s] = "idle"]
    /\ UNCHANGED <<scenario, nlp, model_cache, cache_lock, loads, on_disk,
                   fn_call, avg_call>>

Next ==
    \/ \E s \in scenario.sessions : StartRerun(s)
    \/ \E s \in scenario.sessions : CacheRead(s)
    \/ \E s \in scenario.sessions : LockAndRecheck(s)
    \/ \E s \in scenario.sessions : LoadSucceeds(s)
    \/ \E s \in scenario.sessions : LoadRaises(s)
    \/ \E s \in scenario.sessions : Body(s)

InitApp(sessions, library, stops) ==
    /\ scenario = [sessions |-> sessions, library |-> library, stops |-> stops]
    /\ session_state = [s \in sessions |-> EmptyDict]
    /\ pc = [s \in sessions |-> "idle"]
    /\ nlp = [s \in sessions |-> 0]
    /\ trace = [s \in sessions |-> <<>>]
    /\ model_cache = 0
    /\ cache_lock = 0
    /\ loads = 0
    /\ on_disk \in BOOLEAN
    /\ mapped_at = [s \in sessions |-> EmptyDict]
    /\ fn_call = NoCall
    /\ avg_call = NoCall

\* One user, whose files have two names: syllabi with and without a
\* section of outcomes, and a file that is not UTF-8.
Library ==
    {UploadedFile("a.txt", Text(SyllabusTwo)),
     UploadedFile("a.txt", Text(SyllabusNoSection)),
     UploadedFile("a.txt", NotUtf8),
     UploadedFile("b.txt", Text(SyllabusOne)),
     UploadedFile("b.txt", Text(SyllabusTwo))}

Init == InitApp({1}, Library, SliderStops)

Spec == Init /\ [][Next]_vars

\* Cold start: several sessions at once, each user with the same one file
\* and a slider left where it is.
InitLoad ==
    InitApp(1..MaxSessions, {UploadedFile("a.txt", Text(SyllabusTwo))},
            {DefaultThreshold})

SpecLoad == InitLoad /\ [][Next]_vars


(***************************************************************************)
(* Lines 117-184 run on the tab of a stored file, whatever the slider      *)
(* holds and whether or not the model handle is usable                     *)
(***************************************************************************)
\* The session of a rerun about to render the tab of `name`, ingested as
\* `content` and last computed with `threshold`.
StoredSession(name, content, threshold) ==
    [k \in SessionKeys |->
        IF k = "processed_files"
        THEN Put(EmptyDict, name, call_process_syllabus(content, 1, threshold).ret)
        ELSE IF k = "file_contents" THEN Put(EmptyDict, name, content)
        ELSE IF k = "file_thresholds" THEN Put(EmptyDict, name, threshold)
        ELSE EmptyDict]

InitTab ==
    /\ scenario = [sessions |-> {1}, library |-> {}, stops |-> SliderStops]
    /\ pc = [s \in {1} |-> "body"]
    /\ trace = [s \in {1} |-> <<>>]
    /\ model_cache = 0 /\ cache_lock = 0 /\ loads = 0 /\ on_disk = TRUE
    /\ mapped_at = [s \in {1} |-> EmptyDict]
    /\ fn_call = NoCall
    /\ avg_call = NoCall
    /\ \E m \in {0, 1} : nlp = [s \in {1} |-> m]
    /\ \E name \in {"a.txt", "b.txt"}, threshold \in SliderStops :
          \E content \in {c \in Syllabi : extract_cos(c) # <<>>} :
             session_state = [s \in {1} |-> StoredSession(name, content, threshold)]

RenderTab(s) ==
    /\ pc[s] = "body"
    /\ \E filename \in DOMAIN session_state[s]["processed_files"],
          new_threshold \in scenario.stops :
             EndRerun(s, tab(Run(s), filename, new_threshold, nlp[s]))
    /\ pc' = [pc EXCEPT ![s] = "idle"]
    /\ UNCHANGED <<scenario, nlp, model_cache, cache_lock, loads, on_disk,
                   fn_call, avg_call>>

NextTab == \E s \in scenario.sessions : RenderTab(s)

SpecTab == InitTab /\ [][NextTab]_vars

(***************************************************************************)
(* Properties                                                              *)
(***************************************************************************)
IsNumeral(cell) == cell # <<>> /\ \A i \in DOMAIN cell : cell[i] \in Range(DigitChars)

\* A string d..d.dd read back as a number of hundredths.
IsTwoDecimal(s) ==
    /\ Len(s) >= 4
    /\ s[Len(s) - 2] = "."
    /\ \A i \in DOMAIN s : i # Len(s) - 2 => s[i] \in Range(DigitChars)

Hundredths(s) ==
    100 * StrInt(SubSeq(s, 1, Len(s) - 3)) + StrInt(SubSeq(s, Len(s) - 1, Len(s)))

Abs(n) == IF n < 0 THEN 0 - n ELSE n

NumeralRows(m, j) == {i \in DOMAIN m : IsNumeral(m[i][j])}

RECURSIVE SumOver(_, _, _)
SumOver(m, j, rows) ==
    IF rows = {} THEN 0
    ELSE LET i == CHOOSE i \in rows : TRUE
         IN StrInt(m[i][j]) + SumOver(m, j, rows \ {i})

AverageCell(df, j) == df.data[Len(df.data)][j]

\* C1: the Average cell of a column with numerically parseable cells is their
\* arithmetic mean (sum over exactly those cells, divided by their count)
\* written with two decimals; empty and unparseable cells count for nothing.
C1_AverageIsMeanOfNumericCells ==
    avg_call.done =>
        LET m  == avg_call.args.matrix
            df == avg_call.out
        IN \A j \in DOMAIN df.columns :
              LET rows == NumeralRows(m, j)
                  n    == Cardinality(rows)
                  a    == AverageCell(df, j)
              IN n > 0 =>
                    /\ IsTwoDecimal(a)
                    /\ 2 * Abs(Hundredths(a) * n - 100 * SumOver(m, j, rows)) <= n

\* Cells [2, 3] and an empty cell average to "2.50".
C1_Witness ==
    /\ avg_call.done
    /\ Len(avg_call.args.matrix) = 3
    /\ avg_call.args.matrix[1][1] = <<"2">>
    /\ avg_call.args.matrix[2][1] = <<>>
    /\ avg_call.args.matrix[3][1] = <<"3">>
    /\ AverageCell(avg_call.out, 1) = <<"2", ".", "5", "0">>

\* C2: the Average cell of a column is the empty string exactly when the
\* column has no numerically parseable cell; never "nan" or "0.00" then.
C2_BlankAverageIffNoNumericCell ==
    avg_call.done =>
        LET m  == avg_call.args.matrix
            df == avg_call.out
        IN \A j \in DOMAIN df.columns :
              /\ (AverageCell(df, j) = <<>>) <=> (NumeralRows(m, j) = {})
              /\ NumeralRows(m, j) = {} =>
                    AverageCell(df, j) \notin { <<"n", "a", "n">>, <<"N", "a", "N">>,
                                                <<"0", ".", "0", "0">> }

\* All-empty columns and an all-unparseable column are blank.
C2_Witness ==
    /\ avg_call.done
    /\ Len(avg_call.args.matrix) = 2
    /\ \A i \in DOMAIN avg_call.args.matrix :
          /\ avg_call.args.matrix[i][1] = <<>>
          /\ avg_call.args.matrix[i][2] = <<"x">>
          /\ avg_call.args.matrix[i][3] = <<>>
    /\ AverageCell(avg_call.out, 1) = <<>>
    /\ AverageCell(avg_call.out, 2) = <<>>

\* C3: for a non-empty extraction the matrix has len(cos)+1 rows and
\* len(PROGRAM_OUTCOMES) columns, labelled by the CO ids in extraction order,
\* then one single "Average", and by the PO ids in catalogue order.
C3_MatrixShapeAndLabels ==
    (fn_call.done /\ extract_cos(fn_call.args.content) # <<>>
                  /\ fn_call.out.ret # None) =>
        LET cos == extract_cos(fn_call.args.content)
            df  == fn_call.out.ret.matrix
        IN /\ Len(df.index) = Len(cos) + 1
           /\ Len(df.data) = Len(cos) + 1
           /\ Len(df.columns) = Len(PROGRAM_OUTCOMES)
           /\ \A i \in DOMAIN df.data : Len(df.data[i]) = Len(PROGRAM_OUTCOMES)
           /\ \A i \in DOMAIN cos : df.index[i] = cos[i][1]
           /\ df.index[Len(cos) + 1] = <<"A", "v", "e", "r", "a", "g", "e">>
           /\ Cardinality({i \in DOMAIN df.index :
                 df.index[i] = <<"A", "v", "e", "r", "a", "g", "e">>}) = 1
           /\ \A j \in DOMAIN PROGRAM_OUTCOMES :
                 df.columns[j] = PROGRAM_OUTCOMES[j][1]

\* The syllabus whose items are numbered 5. and 2. gives rows CO1, CO2, Average.
C3_Witness ==
    /\ fn_call.done
    /\ fn_call.args.content = SyllabusRenumbered
    /\ fn_call.out.ret # None
    /\ fn_call.out.ret.matrix.index =
          << <<"C", "O", "1">>, <<"C", "O", "2">>,
             <<"A", "v", "e", "r", "a", "g", "e">> >>

\* C8: a threshold outside [0,1] yields no matrix, with no similarity computed
\* before the rejection, and the rejection is reported whenever there are
\* outcomes to map.
C8_InvalidThresholdRejected ==
    (fn_call.done /\ (fn_call.args.threshold < 0 \/ fn_call.args.threshold > 100)) =>
        /\ fn_call.out.ret = None
        /\ "similarity" \notin Range(fn_call.out.events)
        /\ extract_cos(fn_call.args.content) # <<>> =>
              fn_call.out.events[Len(fn_call.out.events)] = "st.error"

C8_Witness ==
    /\ fn_call.done
    /\ fn_call.args.threshold = 150
    /\ fn_call.args.nlp # 0
    /\ fn_call.args.content = SyllabusTwo
    /\ fn_call.out.ret = None
    /\ fn_call.out.events = <<"extract_cos", "generate_matrix", "st.error">>

\* C9: an argument-contract violation or a missing model met while processing
\* reaches the caller as an error: what the caller receives differs from what
\* it receives when no course outcome is found (None, no exception).
C9_ErrorsSurfaceToCaller ==
    (fn_call.done /\ "st.error" \in Range(fn_call.out.events)) =>
        <<fn_call.out.ret, fn_call.out.raises>> # <<None, "">>

Sessions == scenario.sessions

ProcessedFiles(s) ==
    IF "processed_files" \in DOMAIN session_state[s]
    THEN session_state[s]["processed_files"] ELSE EmptyDict

FileContents(s) ==
    IF "file_contents" \in DOMAIN session_state[s]
    THEN session_state[s]["file_contents"] ELSE EmptyDict

FileThresholds(s) ==
    IF "file_thresholds" \in DOMAIN session_state[s]
    THEN session_state[s]["file_thresholds"] ELSE EmptyDict

\* The process_syllabus calls of the session's current rerun.
Calls(s) == SelectSeq(trace[s], LAMBDA e : e.op = "process_syllabus")

\* C4: when extract_cos returns nothing, process_syllabus does no more than
\* that call (no generate_matrix, no error message) and the file gets no
\* entry in processed_files.
C4_EmptyExtractionIsNothingToAnalyze ==
    \A s \in Sessions :
       /\ \A i \in DOMAIN Calls(s) :
             extract_cos(Calls(s)[i].content) = <<>> =>
                Calls(s)[i].inner = <<"extract_cos">>
       /\ \A f \in DOMAIN FileContents(s) :
             extract_cos(FileContents(s)[f]) = <<>> =>
                f \notin DOMAIN ProcessedFiles(s)

\* a.txt without a section of outcomes was ingested beside b.txt with one.
C4_Witness ==
    \E s \in Sessions :
       /\ Len(Calls(s)) = 2
       /\ Calls(s)[1].content = SyllabusNoSection
       /\ Calls(s)[1].file = "a.txt"
       /\ DOMAIN FileContents(s) = {"a.txt", "b.txt"}
       /\ DOMAIN ProcessedFiles(s) = {"b.txt"}

LoadRaisedIn(tr) ==
    \E i \in DOMAIN tr : tr[i].op = "load_spacy_model"
                         /\ "raised" \in Range(tr[i].inner)

\* C5: in every rerun each process_syllabus call comes after
\* load_spacy_model returned a model in the same rerun, and is given that
\* model; a rerun whose model load raised calls process_syllabus not at all
\* and leaves the session's processed_files, file_contents and
\* file_thresholds as they were.
C5_ModelBeforeProcessing ==
    [][\A s \in Sessions :
          /\ \A i \in DOMAIN trace'[s] :
                trace'[s][i].op = "process_syllabus" =>
                   \E k \in 1..(i - 1) :
                      /\ trace'[s][k].op = "load_spacy_model"
                      /\ trace'[s][k].nlp # 0
                      /\ trace'[s][k].nlp = trace'[s][i].nlp
          /\ LoadRaisedIn(trace'[s]) =>
                /\ \A i \in DOMAIN trace'[s] :
                      trace'[s][i].op # "process_syllabus"
                /\ session_state'[s] = session_state[s]]_vars

\* A rerun ended by the model load raising.
C5_Witness ==
    \E s \in Sessions :
       /\ pc[s] = "idle"
       /\ LoadRaisedIn(trace[s])
       /\ DOMAIN session_state[s] = SessionKeys

\* C6: the body of load_spacy_model completes at most once whatever the
\* interleaving of the sessions, and every process_syllabus call is given
\* the one instance it produced.
C6_ModelLoadedOnce ==
    /\ loads <= 1
    /\ model_cache \in {0, 1}
    /\ loads = 1 => model_cache = 1
    /\ \A s \in Sessions :
          /\ nlp[s] # 0 => nlp[s] = model_cache
          /\ \A i \in DOMAIN Calls(s) :
                Calls(s)[i].nlp # 0 /\ Calls(s)[i].nlp = model_cache

\* Two sessions started cold: one computed the model, the other waited for
\* the lock and found it cached; both processed a syllabus with it.
C6_Witness ==
    \E s1, s2 \in Sessions :
       /\ s1 # s2
       /\ Calls(s1) # <<>> /\ Calls(s2) # <<>>
       /\ "computed" \in Range(trace[s1][1].inner)
       /\ trace[s2][1].inner = <<"waited", "hit">>
       /\ loads = 1

\* C7: after the slider of a file was moved to t and process_syllabus
\* succeeded, the stored entry is the whole result of process_syllabus on
\* the file's content at t, the same as a direct computation gives.
C7_RecomputationIsFresh ==
    \A s \in Sessions : \A i \in DOMAIN Calls(s) :
       LET e     == Calls(s)[i]
           fresh == process_syllabus(e.content, e.nlp, e.threshold).ret
       IN (e.line = 141 /\ e.file \in DOMAIN ProcessedFiles(s) /\ fresh # None) =>
             /\ ProcessedFiles(s)[e.file] = fresh
             /\ ProcessedFiles(s)[e.file].threshold = e.threshold
             /\ ProcessedFiles(s)[e.file].debug_info.threshold = e.threshold

\* The slider of a.txt was moved from 0.80 to 0.40 in an earlier rerun and to
\* 1.00 in this one: the stored matrix has no mapping left.
C7_Witness ==
    \E s \in Sessions :
       /\ \E i \in DOMAIN Calls(s) :
             /\ Calls(s)[i].line = 141
             /\ Calls(s)[i].file = "a.txt"
             /\ Calls(s)[i].threshold = 100
       /\ "a.txt" \in DOMAIN ProcessedFiles(s)
       /\ ProcessedFiles(s)["a.txt"].threshold = 100
       /\ MappedCells(ProcessedFiles(s)["a.txt"]) = {}
       /\ DOMAIN mapped_at[s]["a.txt"] = {40, 80, 100}

\* C10: for thresholds t1 < t2 a file was recomputed with, the mapped cells
\* stored with t2 are among those stored with t1.
C10_ThresholdMonotone ==
    \A s \in Sessions : \A f \in DOMAIN mapped_at[s] :
       \A t1, t2 \in DOMAIN mapped_at[s][f] :
          t1 < t2 => mapped_at[s][f][t2] \subseteq mapped_at[s][f][t1]

\* A file recomputed at 0.40, 0.80 and 1.00, with fewer cells each time.
C10_Witness ==
    \E s \in Sessions : \E f \in DOMAIN mapped_at[s] :
       /\ DOMAIN mapped_at[s][f] = {40, 80, 100}
       /\ mapped_at[s][f][100] # mapped_at[s][f][80]
       /\ mapped_at[s][f][80] # mapped_at[s][f][40]
       /\ mapped_at[s][f][100] \subseteq mapped_at[s][f][80]
       /\ mapped_at[s][f][80] \subseteq mapped_at[s][f][40]

\* C11: every threshold kept in file_thresholds, and every threshold handed
\* to process_syllabus (0.80 at ingestion, the slider's value at a
\* recomputation), lies in [0,1]; process_syllabus hands it on unchanged.
C11_CallerKeepsThresholdContract ==
    \A s \in Sessions :
       /\ \A f \in DOMAIN FileThresholds(s) :
             FileThresholds(s)[f] >= 0 /\ FileThresholds(s)[f] <= 100
       /\ \A i \in DOMAIN Calls(s) :
             Calls(s)[i].threshold >= 0 /\ Calls(s)[i].threshold <= 100
       /\ \A f \in DOMAIN ProcessedFiles(s) :
             /\ ProcessedFiles(s)[f].threshold >= 0
             /\ ProcessedFiles(s)[f].threshold <= 100
             /\ ProcessedFiles(s)[f].debug_info.threshold =
                   ProcessedFiles(s)[f].threshold

\* In one rerun b.txt was ingested at 0.80 and the slider of a.txt was moved
\* to the top of its range.
C11_Witness ==
    \E s \in Sessions :
       /\ \E i \in DOMAIN Calls(s) :
             /\ Calls(s)[i].line = 99 /\ Calls(s)[i].file = "b.txt"
             /\ Calls(s)[i].threshold = 80
       /\ \E i \in DOMAIN Calls(s) :
             /\ Calls(s)[i].line = 141 /\ Calls(s)[i].file = "a.txt"
             /\ Calls(s)[i].threshold = 100
       /\ "a.txt" \in DOMAIN FileThresholds(s)
       /\ FileThresholds(s)["a.txt"] = 100
       /\ FileThresholds(s)["b.txt"] = 80

\* The step is the body of a rerun of session s.
IsRerunOf(s) == pc[s] = "body" /\ pc'[s] = "idle"

\* What the uploader held in the rerun that logged tr.
UploadedIn(tr) ==
    IF \E i \in DOMAIN tr : tr[i].op = "st.file_uploader"
    THEN tr[CHOOSE i \in DOMAIN tr : tr[i].op = "st.file_uploader"].content
    ELSE <<>>

UploadedNames(tr) == {UploadedIn(tr)[i].name : i \in DOMAIN UploadedIn(tr)}

\* The ingestion calls (line 99) among the calls logged in tr.
Ingestions(tr) ==
    SelectSeq(tr, LAMBDA e : e.op = "process_syllabus" /\ e.line = 99)

\* The recomputation calls (line 141) among the calls logged in tr.
Recomputations(tr) ==
    SelectSeq(tr, LAMBDA e : e.op = "process_syllabus" /\ e.line = 141)

ClearClicked(tr) ==
    \E i \in DOMAIN tr : tr[i].op = "st.button" /\ tr[i].inner = <<"clicked">>

\* C12: a rerun never ingests (line 99) a name that file_contents already
\* holds, whatever the uploader holds under that name; it ingests a name at
\* most once; and the cached content of a name stays what it was unless
\* Clear All was clicked in that rerun.
C12_IngestionKeyedByName ==
    [][\A s \in Sessions : IsRerunOf(s) =>
          /\ \A i \in DOMAIN Ingestions(trace'[s]) :
                Ingestions(trace'[s])[i].file \notin DOMAIN FileContents(s)
          /\ \A i, j \in DOMAIN Ingestions(trace'[s]) :
                Ingestions(trace'[s])[i].file = Ingestions(trace'[s])[j].file
                   => i = j
          /\ \A f \in DOMAIN FileContents(s) :
                IF f \in DOMAIN FileContents(s)'
                THEN FileContents(s)'[f] = FileContents(s)[f]
                ELSE ClearClicked(trace'[s])]_vars

\* a.txt was cached as the two-outcome syllabus in an earlier rerun; in this
\* one the uploader holds another file named a.txt, and nothing is ingested.
C12_Witness ==
    \E s \in Sessions :
       /\ pc[s] = "idle"
       /\ \E i \in DOMAIN UploadedIn(trace[s]) :
             /\ UploadedIn(trace[s])[i].name = "a.txt"
             /\ UploadedIn(trace[s])[i].payload = Text(SyllabusNoSection)
       /\ Ingestions(trace[s]) = <<>>
       /\ "a.txt" \in DOMAIN FileContents(s)
       /\ FileContents(s)["a.txt"] = SyllabusTwo

\* C13: when the process_syllabus call of a moved slider yields no result,
\* the stored entry of the file is exactly what it was, and the matrix and
\* the debug threshold displayed at line 155 are those of that entry.
C13_FailedRecomputationKeepsEntry ==
    [][\A s \in Sessions : IsRerunOf(s) =>
          \A i \in DOMAIN Recomputations(trace'[s]) :
             (/\ process_syllabus(Recomputations(trace'[s])[i].content,
                                  Recomputations(trace'[s])[i].nlp,
                                  Recomputations(trace'[s])[i].threshold).ret = None
              /\ ~ClearClicked(trace'[s])) =>
                /\ Recomputations(trace'[s])[i].file \in DOMAIN ProcessedFiles(s)'
                /\ ProcessedFiles(s)'[Recomputations(trace'[s])[i].file] =
                      ProcessedFiles(s)[Recomputations(trace'[s])[i].file]
                /\ \E k \in DOMAIN trace'[s] :
                      /\ trace'[s][k].op = "st.dataframe"
                      /\ trace'[s][k].file = Recomputations(trace'[s])[i].file
                      /\ trace'[s][k].content =
                            ProcessedFiles(s)[trace'[s][k].file].matrix
                      /\ trace'[s][k].threshold =
                            ProcessedFiles(s)[trace'[s][k].file].debug_info.threshold]_vars

\* The slider of a.txt was moved from 0.80 to 0.40, process_syllabus reported
\* an error and returned nothing, and the entry computed at 0.80 is still
\* the one stored and displayed.
C13_Witness ==
    \E s \in Sessions :
       /\ pc[s] = "idle"
       /\ Len(Recomputations(trace[s])) = 1
       /\ Recomputations(trace[s])[1].file = "a.txt"
       /\ Recomputations(trace[s])[1].threshold = 40
       /\ Recomputations(trace[s])[1].inner =
             <<"extract_cos", "generate_matrix", "st.error">>
       /\ ProcessedFiles(s)["a.txt"].threshold = 80
       /\ FileContents(s)["a.txt"] = SyllabusTwo
       /\ \E k \in DOMAIN trace[s] :
             /\ trace[s][k].op = "st.dataframe"
             /\ trace[s][k].threshold = 80
             /\ trace[s][k].content = ProcessedFiles(s)["a.txt"].matrix

\* The events of one kind logged in tr.
EventsOf(tr, op) == SelectSeq(tr, LAMBDA e : e.op = op)

\* C14: for every stored file the threshold recorded with the stored result
\* is the one kept in file_thresholds, and a matrix is displayed with the
\* debug threshold equal to the value the slider of its tab holds.
C14_StoredThresholdIsSliderThreshold ==
    \A s \in Sessions :
       /\ \A f \in DOMAIN ProcessedFiles(s) :
             /\ f \in DOMAIN FileThresholds(s)
             /\ ProcessedFiles(s)[f].threshold = FileThresholds(s)[f]
             /\ ProcessedFiles(s)[f].debug_info.threshold = FileThresholds(s)[f]
       /\ \A k \in DOMAIN EventsOf(trace[s], "st.dataframe") :
             \E i \in DOMAIN EventsOf(trace[s], "st.slider") :
                /\ EventsOf(trace[s], "st.slider")[i].file =
                      EventsOf(trace[s], "st.dataframe")[k].file
                /\ EventsOf(trace[s], "st.slider")[i].threshold =
                      EventsOf(trace[s], "st.dataframe")[k].threshold

\* Two stored files, the slider of a.txt moved to 0.40 and that of b.txt
\* left at 0.80, both displayed.
C14_Witness ==
    \E s \in Sessions :
       /\ pc[s] = "idle"
       /\ DOMAIN ProcessedFiles(s) = {"a.txt", "b.txt"}
       /\ ProcessedFiles(s)["a.txt"].threshold = 40
       /\ FileThresholds(s)["a.txt"] = 40
       /\ ProcessedFiles(s)["b.txt"].threshold = 80
       /\ FileThresholds(s)["b.txt"] = 80
       /\ Len(EventsOf(trace[s], "st.dataframe")) = 2
       /\ Len(Recomputations(trace[s])) = 1

\* The stored files whose slider, in the rerun that logged tr, held a value
\* other than the threshold stored in thresholds.
MovedIn(tr, thresholds) ==
    {f \in DOMAIN thresholds :
        \E i \in DOMAIN EventsOf(tr, "st.slider") :
           /\ EventsOf(tr, "st.slider")[i].file = f
           /\ EventsOf(tr, "st.slider")[i].threshold # thresholds[f]}

\* What the three caches hold for name g, "absent" where they have no key.
EntryOf(ss, g) ==
    [k \in {"processed_files", "file_contents", "file_thresholds"} |->
        IF k \in DOMAIN ss /\ g \in DOMAIN ss[k] THEN <<ss[k][g]>> ELSE <<>>]

\* C15: in a rerun without a Clear All click, a file cached before it whose
\* slider holds its stored threshold keeps its processed_files,
\* file_contents and file_thresholds entries; the file whose slider moved
\* keeps its file_contents entry.
C15_SliderAffectsOneFile ==
    [][\A s \in Sessions : (IsRerunOf(s) /\ ~ClearClicked(trace'[s])) =>
          \A g \in DOMAIN FileContents(s) :
             /\ FileContents(s)'[g] = FileContents(s)[g]
             /\ g \notin MovedIn(trace'[s], FileThresholds(s)) =>
                   EntryOf(session_state'[s], g) = EntryOf(session_state[s], g)]_vars

\* a.txt and b.txt are stored, b.txt at 1.00 since an earlier rerun; in this
\* one only the slider of a.txt moved, to 0.40.
C15_Witness ==
    \E s \in Sessions :
       /\ pc[s] = "idle"
       /\ Ingestions(trace[s]) = <<>>
       /\ ~ClearClicked(trace[s])
       /\ Len(EventsOf(trace[s], "st.slider")) = 2
       /\ Len(Recomputations(trace[s])) = 1
       /\ Recomputations(trace[s])[1].file = "a.txt"
       /\ DOMAIN ProcessedFiles(s) = {"a.txt", "b.txt"}
       /\ FileThresholds(s)["a.txt"] = 40
       /\ FileThresholds(s)["b.txt"] = 100
       /\ ProcessedFiles(s)["b.txt"].threshold = 100

\* The three caches of a session.
Caches(ss) ==
    [k \in {"processed_files", "file_contents", "file_thresholds"} |->
        IF k \in DOMAIN ss THEN ss[k] ELSE EmptyDict]

\* C16: a rerun in which every name in the uploader is already cached, no
\* slider holds a value other than the stored threshold and Clear All is
\* not clicked calls process_syllabus not at all and leaves processed_files,
\* file_contents and file_thresholds exactly as they were.
C16_UnchangedRerunIsIdempotent ==
    [][\A s \in Sessions :
          (/\ IsRerunOf(s)
           /\ UploadedNames(trace'[s]) \subseteq DOMAIN FileContents(s)
           /\ MovedIn(trace'[s], FileThresholds(s)) = {}
           /\ ~ClearClicked(trace'[s])) =>
              /\ EventsOf(trace'[s], "process_syllabus") = <<>>
              /\ Caches(session_state'[s]) = Caches(session_state[s])]_vars

\* b.txt is stored with its slider at 0.40 since an earlier rerun and a.txt
\* is cached without a result; this rerun has both in the uploader, the
\* slider still at 0.40, and it calls nothing.
C16_Witness ==
    \E s \in Sessions :
       /\ pc[s] = "idle"
       /\ UploadedNames(trace[s]) = {"a.txt", "b.txt"}
       /\ DOMAIN FileContents(s) = {"a.txt", "b.txt"}
       /\ DOMAIN ProcessedFiles(s) = {"b.txt"}
       /\ FileThresholds(s)["b.txt"] = 40
       /\ EventsOf(trace[s], "process_syllabus") = <<>>
       /\ Len(EventsOf(trace[s], "st.slider")) = 1
       /\ EventsOf(trace[s], "st.slider")[1].threshold = 40
       /\ Len(EventsOf(trace[s], "st.button")) = 1
       /\ ~ClearClicked(trace[s])

\* C17: file_contents and file_thresholds have the same keys, and every key
\* of processed_files is one of them.
C17_CacheKeySets ==
    \A s \in Sessions :
       /\ DOMAIN FileContents(s) = DOMAIN FileThresholds(s)
       /\ DOMAIN ProcessedFiles(s) \subseteq DOMAIN FileContents(s)

\* a.txt is cached without a result, with the default threshold; b.txt is
\* stored and its slider was moved.
C17_Witness ==
    \E s \in Sessions :
       /\ pc[s] = "idle"
       /\ DOMAIN FileContents(s) = {"a.txt", "b.txt"}
       /\ DOMAIN FileThresholds(s) = {"a.txt", "b.txt"}
       /\ DOMAIN ProcessedFiles(s) = {"b.txt"}
       /\ FileContents(s)["a.txt"] = SyllabusNoSection
       /\ FileThresholds(s)["a.txt"] = DefaultThreshold
       /\ FileThresholds(s)["b.txt"] = 100

\* C18: a rerun in which Clear All is clicked ends with processed_files,
\* file_contents, file_thresholds and matrix_states all empty; any other
\* step, whatever the uploader holds, leaves every key of each of them in
\* place.
C18_OnlyClearAllRemoves ==
    [][\A s \in Sessions :
          /\ (IsRerunOf(s) /\ ClearClicked(trace'[s])) =>
                \A k \in SessionKeys : session_state'[s][k] = EmptyDict
          /\ ~(IsRerunOf(s) /\ ClearClicked(trace'[s])) =>
                \A k \in DOMAIN session_state[s] :
                   /\ k \in DOMAIN session_state'[s]
                   /\ DOMAIN session_state[s][k] \subseteq
                         DOMAIN session_state'[s][k]]_vars

\* a.txt and b.txt were stored by earlier reruns; in this one the uploader
\* holds b.txt alone, and a.txt is still cached, stored and displayed.
C18_Witness ==
    \E s \in Sessions :
       /\ pc[s] = "idle"
       /\ UploadedNames(trace[s]) = {"b.txt"}
       /\ Ingestions(trace[s]) = <<>>
       /\ ~ClearClicked(trace[s])
       /\ DOMAIN FileContents(s) = {"a.txt", "b.txt"}
       /\ DOMAIN ProcessedFiles(s) = {"a.txt", "b.txt"}
       /\ \E k \in DOMAIN EventsOf(trace[s], "st.dataframe") :
             EventsOf(trace[s], "st.dataframe")[k].file = "a.txt"

====
